---- MODULE Spec2Model ----
(***************************************************************************)
(* extension-bus: a named message bus on top of chrome.runtime messaging.  *)
(*                                                                         *)
(* The model follows src/src/index.ts (lines 1-262, the current makeBus).  *)
(* Every bus lives in its own extension process.  runtime.sendMessage      *)
(* hands a request to the onMessage listener of every other process; the   *)
(* first sendResponse wins and the sender's callback runs once.            *)
(*                                                                         *)
(* Strings that the code parses (call paths) are sequences of tokens: the  *)
(* separators ":", "/" and "." are tokens of their own, every other token  *)
(* is a run of ordinary characters.  JavaScript values are records with a  *)
(* tag t, so that undefined, null and strings stay distinct.               *)
(***************************************************************************)
EXTENDS Integers, Sequences, FiniteSets, TLC

VARIABLES
    alive,      \* the buses that were made (makeBus ran in their process)
    options,    \* options[b]: the options bus b was made with (target, onError)
    handlers,   \* handlers[b]: the handler tree of bus b
    error,      \* error[b]: bus.error of bus b
    calls,      \* calls[i]: the i-th bus.call(): its request and its promise
    chan,       \* chan[i]: the message channel chrome opened for calls[i]
    lst,        \* lst[i][b]: what b's onMessage listener did with calls[i]
    unit,       \* a direct call of one function of the module: its arguments
                \* and, once it has run, what it gave back
    busTarget   \* busTarget[b]: the target property of the bus object of b

vars ==
    <<alive, options, handlers, error, calls, chan, lst, unit, busTarget>>

-----------------------------------------------------------------------------
(* Bounds *)

\* the number of bus.call() invocations in one behaviour
MaxCalls == 2

\* the number of tokens in a path handed directly to getHandler or makeRequest
MaxPathLen == 5

\* the number of buses that get handlers added after construction, and the
\* number of buses whose target property is assigned, in one behaviour
MaxEdits == 1

-----------------------------------------------------------------------------
(* JavaScript values *)

Undefined == [t |-> "undefined"]
Null == [t |-> "null"]
Str(s) == [t |-> "string", v |-> s]
\* new Error(message), name being the constructor's name
ErrorObject(name, message) == [t |-> "error", name |-> name, message |-> message]

\* the payloads bus.call() is given
Payloads == {Str("x")}

-----------------------------------------------------------------------------
(* Handler trees: type Handlers = { [key: string]: Handler } *)

Fn(name) == [type |-> "function", fn |-> name]
Obj(entries) == [type |-> "object", entries |-> entries]
NoValue == [type |-> "undefined"]

\* parent[segment] on an object, segment being a piece of the split path: the
\* keys of the trees are single tokens, and a missing key reads as undefined
Get(parent, segment) ==
    IF Len(segment) = 1 /\ segment[1] \in DOMAIN parent.entries
    THEN parent.entries[segment[1]]
    ELSE NoValue

\* `Received: ${value}`
Received(value) == [t |-> "template", head |-> "Received: ", value |-> value]

\* result.then(value => `Received: ${value}`), on what a call returned or threw
ThenReceived(out) ==
    CASE out.kind = "promise" /\ out.settle = "fulfil" ->
           [out EXCEPT !.value = Received(out.value)]
      [] out.kind = "promise" -> out
      [] out.kind = "throw" -> out
      [] OTHER -> [kind |-> "throw",
                   error |-> ErrorObject("TypeError", "then is not a function")]

RECURSIVE RunHandler(_, _, _)
\* the bodies of the handler functions: what a call of fn(data, sender)
\* with receiver self does
RunHandler(fn, data, self) ==
    CASE fn = "greet"  -> [kind |-> "return",
                           value |-> IF data = Str("x") THEN Str("hi x")
                                                        ELSE Str("hi undefined")]
      [] fn = "pass"   -> [kind |-> "return", value |-> Str("handled by background")]
      [] fn = "handle" -> [kind |-> "return", value |-> Undefined]
      [] fn = "hello"  -> [kind |-> "return", value |-> Undefined]
      [] fn = "fail"   -> [kind |-> "throw",
                           error |-> ErrorObject("ReferenceError", "foo is not defined")]
      [] fn = "oops"   -> [kind |-> "throw", error |-> Str("foo is not defined")]
      [] fn = "delay"  -> [kind |-> "promise", settle |-> "fulfil",
                           value |-> Str("now")]
      [] fn = "refuse" -> [kind |-> "promise", settle |-> "reject",
                           value |-> ErrorObject("ReferenceError", "foo is not defined")]
      [] fn = "bound"  ->
           \* return this.delay(value, sender).then(...)
           IF Get(self, <<"delay">>).type = "function"
           THEN ThenReceived(RunHandler(Get(self, <<"delay">>).fn, data, self))
           ELSE [kind |-> "throw",
                 error |-> ErrorObject("TypeError", "this.delay is not a function")]
      [] OTHER         -> [kind |-> "return", value |-> Undefined]

-----------------------------------------------------------------------------
(* getHandler: resolve a nested handler by path *)

RECURSIVE SplitOn(_, _, _)
\* String.prototype.split on the separators seps: cur is the piece being read
SplitOn(tokens, seps, cur) ==
    IF tokens = <<>> THEN <<cur>>
    ELSE IF Head(tokens) \in seps
         THEN <<cur>> \o SplitOn(Tail(tokens), seps, <<>>)
         ELSE SplitOn(Tail(tokens), seps, Append(cur, Head(tokens)))

Split(tokens, seps) == SplitOn(tokens, seps, <<>>)

RECURSIVE GetHandlerLoop(_, _)
\* the while loop of getHandler, from (parent, segments)
GetHandlerLoop(parent, segments) ==
    IF segments = <<>> THEN [status |-> "none"]
    ELSE LET segment == Head(segments)
             rest == Tail(segments)
         IN  IF segment = <<>> THEN GetHandlerLoop(parent, rest)    \* '' is falsy
             ELSE IF parent.type = "undefined"
                  THEN [status |-> "TypeError"]    \* undefined[segment]
                  ELSE LET child == Get(parent, segment)
                       IN  IF child.type = "function"
                           THEN IF rest = <<>>
                                THEN [status |-> "found", fn |-> child.fn,
                                      self |-> parent]
                                ELSE GetHandlerLoop(parent, rest)
                           ELSE GetHandlerLoop(child, rest)

\* a resolution that looks the last segment up in the root of the tree
getHandlerLastSegment(input, path) ==
    CHOOSE result \in {GetHandlerLoop(input, <<segments[Len(segments)]>>) :
                           segments \in {Split(path, {"/", "."})}} : TRUE

\* a resolution that binds every handler to the root of the tree
getHandlerBoundToRoot(input, path) ==
    CHOOSE result \in {IF found.status = "found"
                       THEN [found EXCEPT !.self = input] ELSE found :
                           found \in {GetHandlerLoop(input, Split(path, {"/", "."}))}} :
        TRUE

\* const segments = path.split(/[/.]/), then the loop
getHandler(input, path) ==
    CHOOSE result \in {GetHandlerLoop(input, segments) :
                           segments \in {Split(path, {"/", "."})}} : TRUE

-----------------------------------------------------------------------------
(* makeRequest, makeResponse *)

HasColon(path) == \E k \in 1..Len(path) : path[k] = ":"

\* source is a bus name; target and path are token sequences
makeRequest(source, target, path, data) ==
    LET parts == IF HasColon(path) THEN Split(path, {":"}) ELSE <<<<>>, path>>
        _target == parts[1]
        _path == parts[2]
    IN  [source |-> source,
         target |-> IF _target # <<>> THEN _target ELSE target,
         path |-> _path,
         data |-> data]

makeResponse(target, payload) == [target |-> target] @@ payload

-----------------------------------------------------------------------------
(* handleRequest: the onMessage listener of bus source *)

\* a handleError that reports the name of the error as the code
HandlerErrorPayloadNameAsCode(err) ==
    IF err.t = "error"
    THEN [error |-> [code |-> err.name, message |-> Str(err.message),
                     type |-> Str(err.name)]]
    ELSE [error |-> [code |-> "handler_error", message |-> err]]

\* handleError inside handleRequest: the response it sends
HandlerErrorPayload(err) ==
    IF err.t = "error"
    THEN [error |-> [code |-> "handler_error", message |-> Str(err.message),
                     type |-> Str(err.name)]]
    ELSE [error |-> [code |-> "handler_error", message |-> err]]

NoHandlerPayload == [error |-> [code |-> "no_handler", message |-> Str("No handler")]]

\* a try block that leaves a returned value to a later task and returns
\* nothing
InvokeHandlerDefersValue(source, h, data) ==
    LET out == RunHandler(h.fn, data, h.self)
    IN  CASE out.kind = "promise" ->
               [sends |-> <<>>, early |-> TRUE, promise |-> <<out>>]
          [] out.kind = "return" ->
               [sends |-> <<>>, early |-> FALSE,
                promise |-> <<[kind |-> "promise", settle |-> "fulfil",
                               value |-> out.value]>>]
          [] out.kind = "throw" ->
               [sends |-> <<makeResponse(source, HandlerErrorPayload(out.error))>>,
                early |-> FALSE, promise |-> <<>>]

\* the part of handleRequest that runs when a handler was resolved:
\* the responses sent before the listener returns, and whether it returned true
InvokeHandler(source, h, data) ==
    LET out == RunHandler(h.fn, data, h.self)
    IN  CASE out.kind = "promise" ->
               [sends |-> <<>>, early |-> TRUE, promise |-> <<out>>]
          [] out.kind = "return" ->
               [sends |-> <<makeResponse(source, [result |-> out.value])>>,
                early |-> FALSE, promise |-> <<>>]
          [] out.kind = "throw" ->
               [sends |-> <<makeResponse(source, HandlerErrorPayload(out.error))>>,
                early |-> FALSE, promise |-> <<>>]

\* a dispatcher that reports a miss whatever the target was
NamedTargetTailAnyTarget(source, target) == <<makeResponse(source, NoHandlerPayload)>>

\* "reached named target, but no handler": the code after the handler branch
NamedTargetTail(source, target) ==
    IF target = <<source>> THEN <<makeResponse(source, NoHandlerPayload)>> ELSE <<>>

\* a dispatcher that answers a miss with an empty result
DispatchAnswersMiss(source, request, h) ==
    LET base == [accepted |-> TRUE, resolved |-> h.status, ended |-> "undefined",
                 sends |-> <<>>, invoked |-> <<>>, promise |-> <<>>]
    IN  CASE h.status = "TypeError" -> [base EXCEPT !.ended = "threw"]
          [] h.status = "none" ->
               [base EXCEPT !.sends = <<makeResponse(source, [result |-> Null])>>]
          [] h.status = "found" ->
               LET r == InvokeHandler(source, h, request.data)
                   call == [fn |-> h.fn, data |-> request.data, self |-> h.self]
               IN  IF r.early
                   THEN [base EXCEPT !.ended = "true", !.invoked = <<call>>,
                                     !.promise = r.promise]
                   ELSE [base EXCEPT !.invoked = <<call>>,
                                     !.sends = r.sends \o
                                               NamedTargetTail(source,
                                                               request.target)]

\* a dispatcher that does not return true for a handler's promise
DispatchForgetsPending(source, request, h) ==
    LET base == [accepted |-> TRUE, resolved |-> h.status, ended |-> "undefined",
                 sends |-> <<>>, invoked |-> <<>>, promise |-> <<>>]
    IN  CASE h.status = "TypeError" -> [base EXCEPT !.ended = "threw"]
          [] h.status = "none" ->
               [base EXCEPT !.sends = NamedTargetTail(source, request.target)]
          [] h.status = "found" ->
               LET r == InvokeHandler(source, h, request.data)
                   call == [fn |-> h.fn, data |-> request.data, self |-> h.self]
               IN  IF r.early
                   THEN [base EXCEPT !.invoked = <<call>>, !.promise = r.promise]
                   ELSE [base EXCEPT !.invoked = <<call>>,
                                     !.sends = r.sends \o
                                               NamedTargetTail(source,
                                                               request.target)]

\* a dispatcher without the catch block: what the handler throws leaves the
\* listener
DispatchRethrows(source, request, h) ==
    LET base == [accepted |-> TRUE, resolved |-> h.status, ended |-> "undefined",
                 sends |-> <<>>, invoked |-> <<>>, promise |-> <<>>]
    IN  CASE h.status = "TypeError" -> [base EXCEPT !.ended = "threw"]
          [] h.status = "none" ->
               [base EXCEPT !.sends = NamedTargetTail(source, request.target)]
          [] h.status = "found" ->
               LET r == InvokeHandler(source, h, request.data)
                   call == [fn |-> h.fn, data |-> request.data, self |-> h.self]
               IN  IF r.early
                   THEN [base EXCEPT !.ended = "true", !.invoked = <<call>>,
                                     !.promise = r.promise]
                   ELSE IF RunHandler(h.fn, request.data, h.self).kind = "throw"
                        THEN [base EXCEPT !.invoked = <<call>>, !.ended = "threw"]
                        ELSE [base EXCEPT !.invoked = <<call>>,
                                          !.sends = r.sends \o
                                                    NamedTargetTail(source,
                                                                    request.target)]

\* the body of handleRequest once the target check has passed and getHandler
\* has returned or thrown (h): what the listener sent, what it invoked, how
\* it ended
\*   ended: "true" (returned true), "undefined" (returned nothing), "threw"
Dispatch(source, request, h) ==
    LET target == request.target
        base == [accepted |-> TRUE, resolved |-> h.status, ended |-> "undefined",
                 sends |-> <<>>, invoked |-> <<>>, promise |-> <<>>]
    IN  CASE h.status = "TypeError" -> [base EXCEPT !.ended = "threw"]
          [] h.status = "none" ->
               [base EXCEPT !.sends = NamedTargetTail(source, target)]
          [] h.status = "found" ->
               LET r == InvokeHandler(source, h, request.data)
                   call == [fn |-> h.fn, data |-> request.data, self |-> h.self]
               IN  IF r.early
                   THEN [base EXCEPT !.ended = "true", !.invoked = <<call>>,
                                     !.promise = r.promise]
                   ELSE [base EXCEPT !.invoked = <<call>>,
                                     !.sends = r.sends \o
                                               NamedTargetTail(source, target)]

\* a listener without the target check
handleRequestAnyTarget(source, tree, request) ==
    CHOOSE out \in {Dispatch(source, request, handler) :
                       handler \in {getHandler(tree, request.path)}} : TRUE

\* the whole listener, for one request
handleRequest(source, tree, request) ==
    IF request.target = <<source>> \/ request.target = <<"*">>
    THEN CHOOSE out \in {Dispatch(source, request, handler) :
                            handler \in {getHandler(tree, request.path)}} : TRUE
    ELSE [accepted |-> FALSE, resolved |-> "n/a", ended |-> "undefined",
          sends |-> <<>>, invoked |-> <<>>, promise |-> <<>>]

\* a string whose content is the token sequence p, as a message carries it
PathString(p) == [t |-> "string", tokens |-> p]

\* chrome.runtime.onMessageExternal has the listener only
\* if (options.external): false and absent are falsy, a list or a function
\* is not
ExternalListening(external) == ~(external.t = "boolean" /\ ~external.v)

\* handleExternalRequest, the onMessageExternal listener of bus source:
\* what it sent (sendResponse() without an argument sends undefined), the
\* request it handed to handleRequest, what that invoked
handleExternalRequest(source, tree, external, request) ==
    LET none == [sends |-> <<>>, dispatched |-> <<>>, invoked |-> <<>>,
                 ended |-> "undefined", promise |-> <<>>]
    IN  IF request.t = "object" /\ "path" \in DOMAIN request
        THEN IF request.path.t = "string"
             THEN IF external.t = "function"
                       /\ request.path.tokens \notin external.allow
                  THEN [none EXCEPT !.sends = <<Undefined>>]
                  ELSE LET spread ==
                             [source |-> IF "source" \in DOMAIN request
                                         THEN request.source ELSE "external",
                              target |-> IF "target" \in DOMAIN request
                                         THEN request.target ELSE <<"*">>,
                              path |-> request.path.tokens,
                              data |-> IF "data" \in DOMAIN request
                                       THEN request.data ELSE Undefined]
                           out == handleRequest(source, tree, spread)
                       IN  [sends |-> out.sends, dispatched |-> <<spread>>,
                            invoked |-> out.invoked, ended |-> out.ended,
                            promise |-> out.promise]
             ELSE none
        ELSE none

\* a continuation whose catch reports a fixed message instead of the error's
PromiseResponseUnknownMessage(source, p) ==
    IF p.settle = "fulfil"
    THEN makeResponse(source, [result |-> p.value])
    ELSE makeResponse(source, [error |-> [code |-> "handler_error",
                                          message |-> Str("unknown")]])

\* the continuation of a handler's promise: .then(send) or .catch(handleError)
PromiseResponse(source, p) ==
    IF p.settle = "fulfil"
    THEN makeResponse(source, [result |-> p.value])
    ELSE makeResponse(source, HandlerErrorPayload(p.value))

-----------------------------------------------------------------------------
(* chrome.runtime messaging, as far as the bus relies on it *)

\* chrome.runtime.lastError.message in the two cases of README's error table
NoReceiver == Str("Could not establish connection. Receiving end does not exist.")
PortClosed == Str("The message port closed before a response was received.")

\* what a response looks like after the structured clone: a property whose
\* value is undefined does not travel
Wire(response) ==
    IF "result" \in DOMAIN response /\ response.result = Undefined
    THEN [target |-> response.target]
    ELSE response

\* JavaScript truthiness of the values of the model
Truthy(v) == v \notin {Undefined, Null, Str("")}

-----------------------------------------------------------------------------
(* handleResponse: the callback of sendMessage *)

\* what a custom onError function is given and what it returns
OnErrorFunction(request, response, bus) == Str("fallback")

\* an error classification whose default code is the named-target miss
BusErrorDefaultNoHandler(response, request, chromeError) ==
    LET err == IF response # Undefined /\ "error" \in DOMAIN response
               THEN response.error ELSE [none |-> TRUE]
        from == IF response # Undefined /\ "target" \in DOMAIN response
                THEN <<response.target>> ELSE request.target
    IN  [code |-> IF "code" \in DOMAIN err THEN err.code ELSE "no_handler",
         message |-> IF "message" \in DOMAIN err /\ err.message \notin {Undefined, Null}
                     THEN err.message ELSE chromeError,
         target |-> from \o <<":">> \o request.path]

\* an error classification that prefers what the transport reported
BusErrorPrefersTransport(response, request, chromeError) ==
    LET err == IF response # Undefined /\ "error" \in DOMAIN response
               THEN response.error ELSE [none |-> TRUE]
        from == IF response # Undefined /\ "target" \in DOMAIN response
                THEN <<response.target>> ELSE request.target
    IN  [code |-> IF "code" \in DOMAIN err /\ ~Truthy(chromeError)
                  THEN err.code ELSE "no_response",
         message |-> IF Truthy(chromeError) THEN chromeError
                     ELSE IF "message" \in DOMAIN err
                               /\ err.message \notin {Undefined, Null}
                          THEN err.message ELSE chromeError,
         target |-> from \o <<":">> \o request.path]

\* the structured error of lines 161-171
BusError(response, request, chromeError) ==
    LET err == IF response # Undefined /\ "error" \in DOMAIN response
               THEN response.error ELSE [none |-> TRUE]
        from == IF response # Undefined /\ "target" \in DOMAIN response
                THEN <<response.target>> ELSE request.target
    IN  [code |-> IF "code" \in DOMAIN err THEN err.code ELSE "no_response",
         message |-> IF "message" \in DOMAIN err /\ err.message \notin {Undefined, Null}
                     THEN err.message ELSE chromeError,
         target |-> from \o <<":">> \o request.path]

\* a policy branch that calls the custom function and resolves with null
ErrorPolicyIgnoresReturn(onError, code, request, response, slot) ==
    CASE onError = "reject" ->
           [state |-> "rejected", value |-> slot, warned |-> FALSE,
            onErrorArgs |-> <<>>]
      [] onError = "warn" /\ code # "no_response" ->
           [state |-> "resolved", value |-> Null, warned |-> TRUE,
            onErrorArgs |-> <<>>]
      [] onError = "function" ->
           [state |-> "resolved", value |-> Null, warned |-> FALSE,
            onErrorArgs |-> <<[request |-> request, response |-> response,
                               error |-> slot]>>]
      [] OTHER ->
           [state |-> "resolved", value |-> Null, warned |-> FALSE,
            onErrorArgs |-> <<>>]

\* a policy branch that rejects with the message alone
ErrorPolicyRejectsMessage(onError, code, request, response, slot) ==
    CASE onError = "reject" ->
           [state |-> "rejected", value |-> slot.message, warned |-> FALSE,
            onErrorArgs |-> <<>>]
      [] onError = "warn" /\ code # "no_response" ->
           [state |-> "resolved", value |-> Null, warned |-> TRUE,
            onErrorArgs |-> <<>>]
      [] onError = "function" ->
           [state |-> "resolved",
            value |-> OnErrorFunction(request, response, slot),
            warned |-> FALSE,
            onErrorArgs |-> <<[request |-> request, response |-> response,
                               error |-> slot]>>]
      [] OTHER ->
           [state |-> "resolved", value |-> Null, warned |-> FALSE,
            onErrorArgs |-> <<>>]

\* a policy branch that warns whatever the code is
ErrorPolicyAlwaysWarns(onError, code, request, response, slot) ==
    CASE onError = "reject" ->
           [state |-> "rejected", value |-> slot, warned |-> FALSE,
            onErrorArgs |-> <<>>]
      [] onError = "warn" /\ code # "no_response" ->
           [state |-> "resolved", value |-> Null, warned |-> TRUE,
            onErrorArgs |-> <<>>]
      [] onError = "function" ->
           [state |-> "resolved",
            value |-> OnErrorFunction(request, response, slot),
            warned |-> FALSE,
            onErrorArgs |-> <<[request |-> request, response |-> response,
                               error |-> slot]>>]
      [] OTHER ->
           [state |-> "resolved", value |-> Null, warned |-> TRUE,
            onErrorArgs |-> <<>>]

\* a policy branch that rejects only what it would have warned about
ErrorPolicyRejectUnlessNoResponse(onError, code, request, response, slot) ==
    CASE onError = "reject" /\ code # "no_response" ->
           [state |-> "rejected", value |-> slot, warned |-> FALSE,
            onErrorArgs |-> <<>>]
      [] onError = "warn" /\ code # "no_response" ->
           [state |-> "resolved", value |-> Null, warned |-> TRUE,
            onErrorArgs |-> <<>>]
      [] onError = "function" ->
           [state |-> "resolved",
            value |-> OnErrorFunction(request, response, slot),
            warned |-> FALSE,
            onErrorArgs |-> <<[request |-> request, response |-> response,
                               error |-> slot]>>]
      [] OTHER ->
           [state |-> "resolved", value |-> Null, warned |-> FALSE,
            onErrorArgs |-> <<>>]

\* a policy branch whose warning path ends without resolving the promise
ErrorPolicyWarnWithoutResolve(onError, code, request, response, slot) ==
    CASE onError = "reject" ->
           [state |-> "rejected", value |-> slot, warned |-> FALSE,
            onErrorArgs |-> <<>>]
      [] onError = "warn" /\ code # "no_response" ->
           [state |-> "pending", value |-> Undefined, warned |-> TRUE,
            onErrorArgs |-> <<>>]
      [] onError = "function" ->
           [state |-> "resolved",
            value |-> OnErrorFunction(request, response, slot),
            warned |-> FALSE,
            onErrorArgs |-> <<[request |-> request, response |-> response,
                               error |-> slot]>>]
      [] OTHER ->
           [state |-> "resolved", value |-> Null, warned |-> FALSE,
            onErrorArgs |-> <<>>]

\* the policy branch of lines 173-189, run with bus.error being slot
ErrorPolicy(onError, code, request, response, slot) ==
    CASE onError = "reject" ->
           [state |-> "rejected", value |-> slot, warned |-> FALSE,
            onErrorArgs |-> <<>>]
      [] onError = "warn" /\ code # "no_response" ->
           [state |-> "resolved", value |-> Null, warned |-> TRUE,
            onErrorArgs |-> <<>>]
      [] onError = "function" ->
           [state |-> "resolved",
            value |-> OnErrorFunction(request, response, slot),
            warned |-> FALSE,
            onErrorArgs |-> <<[request |-> request, response |-> response,
                               error |-> slot]>>]
      [] OTHER ->
           [state |-> "resolved", value |-> Null, warned |-> FALSE,
            onErrorArgs |-> <<>>]

\* a callback that resolves with response.result || null
handleResponseNullForUndefined(response, request, lastError, onError, slot0) ==
    LET chromeError == IF Truthy(lastError) THEN lastError ELSE Str("")
        hasError == response # Undefined /\ "error" \in DOMAIN response
    IN  IF Truthy(chromeError) \/ response = Undefined \/ hasError
        THEN LET err == BusError(response, request, chromeError)
                 pol == ErrorPolicy(onError, err.code, request, response, err)
             IN  [failed |-> TRUE, error |-> err, assigned |-> <<err>>,
                  seen |-> <<err>>, state |-> pol.state, value |-> pol.value,
                  warned |-> pol.warned, onErrorArgs |-> pol.onErrorArgs]
        ELSE [failed |-> FALSE, error |-> slot0, assigned |-> <<>>,
              seen |-> <<>>, state |-> "resolved",
              value |-> IF "result" \in DOMAIN response /\ Truthy(response.result)
                        THEN response.result ELSE Null,
              warned |-> FALSE, onErrorArgs |-> <<>>]

\* a callback that runs the policy branch first and assigns bus.error last
handleResponseAssignsLast(response, request, lastError, onError, slot0) ==
    LET chromeError == IF Truthy(lastError) THEN lastError ELSE Str("")
        hasError == response # Undefined /\ "error" \in DOMAIN response
    IN  IF Truthy(chromeError) \/ response = Undefined \/ hasError
        THEN LET err == BusError(response, request, chromeError)
                 pol == ErrorPolicy(onError, err.code, request, response, slot0)
             IN  [failed |-> TRUE, error |-> err, assigned |-> <<err>>,
                  seen |-> <<slot0>>, state |-> pol.state, value |-> pol.value,
                  warned |-> pol.warned, onErrorArgs |-> pol.onErrorArgs]
        ELSE [failed |-> FALSE, error |-> slot0, assigned |-> <<>>,
              seen |-> <<>>, state |-> "resolved",
              value |-> IF "result" \in DOMAIN response THEN response.result
                                                        ELSE Undefined,
              warned |-> FALSE, onErrorArgs |-> <<>>]

\* the whole callback: slot0 is bus.error when it starts.  The result says how
\* the promise is settled and what bus.error is afterwards.
handleResponse(response, request, lastError, onError, slot0) ==
    LET chromeError == IF Truthy(lastError) THEN lastError ELSE Str("")
        hasError == response # Undefined /\ "error" \in DOMAIN response
    IN  IF Truthy(chromeError) \/ response = Undefined \/ hasError
        THEN LET err == BusError(response, request, chromeError)
                 slot1 == err                         \* bus.error = { ... }
                 pol == ErrorPolicy(onError, err.code, request, response, slot1)
             IN  [failed |-> TRUE, error |-> slot1, assigned |-> <<err>>,
                  seen |-> <<slot1>>, state |-> pol.state, value |-> pol.value,
                  warned |-> pol.warned, onErrorArgs |-> pol.onErrorArgs]
        ELSE [failed |-> FALSE, error |-> slot0, assigned |-> <<>>,
              seen |-> <<>>, state |-> "resolved",
              value |-> IF "result" \in DOMAIN response THEN response.result
                                                        ELSE Undefined,
              warned |-> FALSE, onErrorArgs |-> <<>>]

-----------------------------------------------------------------------------
(* The buses *)

Names == {"a", "b", "c"}

\* the handler trees the buses are made with
BackgroundHandlers ==
    Obj([greet |-> Fn("greet"), fail |-> Fn("fail"), delay |-> Fn("delay"),
         nested |-> Obj([hello |-> Fn("hello")])])
PopupHandlers ==
    Obj([greet |-> Fn("pass"), fail |-> Fn("oops"), delay |-> Fn("refuse")])

\* makeBus(source, options): the options each bus is made with
MakeOptions ==
    [b \in Names |->
        CASE b = "a" -> [target |-> <<"b">>]
          [] b = "b" -> [target |-> <<"c">>, onError |-> "reject",
                         handlers |-> BackgroundHandlers]
          [] b = "c" -> [target |-> <<"b">>, onError |-> "function",
                         handlers |-> PopupHandlers]]

\* the defaults of lines 228-243
OptionHandlers(o) == IF "handlers" \in DOMAIN o THEN o.handlers ELSE Obj(<<>>)
OptionOnError(o) == IF "onError" \in DOMAIN o THEN o.onError ELSE "warn"
OptionTarget(o) == IF "target" \in DOMAIN o THEN o.target ELSE <<"*">>

\* bus.callTab(tabId, path, data): the request it builds, bus.error after
\* the reset, and the primitive it is sent with
callTab(source, tabId, path, data) ==
    [request |-> makeRequest(source, <<"*">>, path, data), error |-> Null,
     via |-> "tabs.sendMessage", to |-> tabId]

\* bus.callExtension(extensionId, path, data)
callExtension(source, extensionId, path, data) ==
    [request |-> makeRequest(source, <<"*">>, path, data), error |-> Null,
     via |-> "runtime.sendMessage", to |-> extensionId]

\* an add that starts a new tree with the one entry
addReplacesTree(tree, name, newHandlers) ==
    Obj([k \in {name} |-> newHandlers])

\* bus.add(name, newHandlers): handlers[name] = newHandlers, on the tree of
\* the bus
add(tree, name, newHandlers) ==
    Obj([k \in DOMAIN tree.entries \cup {name} |->
            IF k = name THEN newHandlers ELSE tree.entries[k]])

\* the paths bus.call() is given
Prefixes == {<<>>, <<"*", ":">>}
Bodies == {<<"greet">>, <<"fail">>, <<"delay">>, <<"nested", "/", "hello">>,
           <<"missing">>, <<"missing", "/", "x">>}
CallPaths == {p \o q : p \in Prefixes, q \in Bodies}

-----------------------------------------------------------------------------
(* State *)

CallIds == 1..Len(calls)

NotRun == [ran |-> FALSE]

\* no function is called directly
NoUnit == [fn |-> "none"]

\* the calls of bus b whose promise is not settled
InFlight(b) == {i \in CallIds : calls[i].caller = b /\ calls[i].state = "pending"}

Init ==
    /\ alive \in SUBSET Names
    /\ options = MakeOptions
    /\ handlers = [b \in Names |-> OptionHandlers(options[b])]
    /\ error = [b \in Names |-> Null]
    /\ calls = <<>>
    /\ chan = <<>>
    /\ lst = <<>>
    /\ unit = NoUnit
    /\ busTarget = [b \in Names |-> OptionTarget(options[b])]

-----------------------------------------------------------------------------
(* Actions *)

\* a call that does not reset bus.error
CallWithoutReset(b, path, data) ==
    /\ Len(calls) < MaxCalls
    /\ b \in alive
    /\ LET request == makeRequest(b, OptionTarget(options[b]), path, data)
           to == alive \ {b}
       IN  /\ calls' = Append(calls, [caller |-> b, path |-> path, data |-> data,
                                      request |-> request,
                                      overlaps |-> InFlight(b) # {},
                                      busTarget |-> busTarget[b],
                                      state |-> "pending"])
           /\ chan' = Append(chan, [to |-> to, todo |-> to, pending |-> {},
                                    response |-> <<>>, done |-> FALSE])
           /\ lst' = Append(lst, [r \in Names |-> NotRun])
    /\ UNCHANGED <<alive, options, handlers, error, unit, busTarget>>

\* a call that reads the default target from the target property of the bus
CallWithBusTarget(b, path, data) ==
    /\ Len(calls) < MaxCalls
    /\ b \in alive
    /\ LET request == makeRequest(b, busTarget[b], path, data)
           to == alive \ {b}
       IN  /\ error' = [error EXCEPT ![b] = Null]
           /\ calls' = Append(calls, [caller |-> b, path |-> path, data |-> data,
                                      request |-> request,
                                      overlaps |-> InFlight(b) # {},
                                      busTarget |-> busTarget[b],
                                      state |-> "pending"])
           /\ chan' = Append(chan, [to |-> to, todo |-> to, pending |-> {},
                                    response |-> <<>>, done |-> FALSE])
           /\ lst' = Append(lst, [r \in Names |-> NotRun])
    /\ UNCHANGED <<alive, options, handlers, unit, busTarget>>

\* bus.call(path, data) in the process of bus b: lines 202-218.
\* chrome.runtime.sendMessage opens a channel to every other process with a
\* listener.
Call(b, path, data) ==
    /\ Len(calls) < MaxCalls
    /\ b \in alive
    /\ LET request == makeRequest(b, OptionTarget(options[b]), path, data)
           to == alive \ {b}
       IN  /\ error' = [error EXCEPT ![b] = Null]
           /\ calls' = Append(calls, [caller |-> b, path |-> path, data |-> data,
                                      request |-> request,
                                      overlaps |-> InFlight(b) # {},
                                      busTarget |-> busTarget[b],
                                      state |-> "pending"])
           /\ chan' = Append(chan, [to |-> to, todo |-> to, pending |-> {},
                                    response |-> <<>>, done |-> FALSE])
           /\ lst' = Append(lst, [r \in Names |-> NotRun])
    /\ UNCHANGED <<alive, options, handlers, unit, busTarget>>

\* a channel on which a later response replaces an earlier one
RespondLastWins(c, responses) ==
    IF responses # <<>>
    THEN [c EXCEPT !.response = <<Wire(responses[Len(responses)])>>]
    ELSE c

\* sendResponse(r) on channel c: only the first response travels
Respond(c, responses) ==
    IF c.response = <<>> /\ responses # <<>>
    THEN [c EXCEPT !.response = <<Wire(Head(responses))>>]
    ELSE c

\* a listener that leaves a request alone once somebody has answered it
ListenUnlessAnswered(i, r) ==
    /\ i \in CallIds
    /\ r \in chan[i].todo
    /\ \E out \in {IF chan[i].response = <<>>
                    THEN handleRequest(r, handlers[r], calls[i].request)
                    ELSE [accepted |-> FALSE, resolved |-> "n/a",
                          ended |-> "undefined", sends |-> <<>>,
                          invoked |-> <<>>, promise |-> <<>>]} :
         \E c \in {[chan[i] EXCEPT !.todo = @ \ {r},
                                   !.pending = IF out.ended = "true"
                                               THEN @ \cup {r} ELSE @]} :
            /\ chan' = [chan EXCEPT ![i] = Respond(c, out.sends)]
            /\ lst' = [lst EXCEPT ![i][r] = [ran |-> TRUE] @@ out]
    /\ UNCHANGED <<alive, options, handlers, error, calls, unit, busTarget>>

\* a listener that resolves paths in the tree the bus was constructed with
ListenWithConstructionHandlers(i, r) ==
    /\ i \in CallIds
    /\ r \in chan[i].todo
    /\ \E out \in {handleRequest(r, OptionHandlers(options[r]),
                                  calls[i].request)} :
         \E c \in {[chan[i] EXCEPT !.todo = @ \ {r},
                                   !.pending = IF out.ended = "true"
                                               THEN @ \cup {r} ELSE @]} :
            /\ chan' = [chan EXCEPT ![i] = Respond(c, out.sends)]
            /\ lst' = [lst EXCEPT ![i][r] = [ran |-> TRUE] @@ out]
    /\ UNCHANGED <<alive, options, handlers, error, calls, unit, busTarget>>

\* a listener that clears the error property of its own bus as a call does
ListenResetsError(i, r) ==
    /\ i \in CallIds
    /\ r \in chan[i].todo
    /\ \E out \in {handleRequest(r, handlers[r], calls[i].request)} :
         \E c \in {[chan[i] EXCEPT !.todo = @ \ {r},
                                   !.pending = IF out.ended = "true"
                                               THEN @ \cup {r} ELSE @]} :
            /\ chan' = [chan EXCEPT ![i] = Respond(c, out.sends)]
            /\ lst' = [lst EXCEPT ![i][r] = [ran |-> TRUE] @@ out]
    /\ error' = [error EXCEPT ![r] = Null]
    /\ UNCHANGED <<alive, options, handlers, calls, unit, busTarget>>

\* the onMessage listener of bus r runs for the request of calls[i]: lines 81-142
Listen(i, r) ==
    /\ i \in CallIds
    /\ r \in chan[i].todo
    /\ \E out \in {handleRequest(r, handlers[r], calls[i].request)} :
         \E c \in {[chan[i] EXCEPT !.todo = @ \ {r},
                                   !.pending = IF out.ended = "true"
                                               THEN @ \cup {r} ELSE @]} :
            /\ chan' = [chan EXCEPT ![i] = Respond(c, out.sends)]
            /\ lst' = [lst EXCEPT ![i][r] = [ran |-> TRUE] @@ out]
    /\ UNCHANGED <<alive, options, handlers, error, calls, unit, busTarget>>

\* the promise a handler of bus r returned for calls[i] settles: lines 119-121
Settle(i, r) ==
    /\ i \in CallIds
    /\ r \in chan[i].pending
    /\ LET sent == PromiseResponse(r, lst[i][r].promise[1])
           c == [chan[i] EXCEPT !.pending = @ \ {r}]
       IN  /\ chan' = [chan EXCEPT ![i] = Respond(c, <<sent>>)]
           /\ lst' = [lst EXCEPT ![i][r].sends = Append(@, sent)]
    /\ UNCHANGED <<alive, options, handlers, error, calls, unit, busTarget>>

\* a callback that settles the oldest call of the bus that is still in flight,
\* as a queue of resolvers shared by the calls of a bus would
CallbackSharedQueue(i) ==
    /\ i \in CallIds
    /\ ~chan[i].done
    /\ \/ chan[i].response # <<>>
       \/ chan[i].todo = {} /\ chan[i].pending = {}
    /\ LET c == chan[i]
           b == calls[i].caller
           j == CHOOSE k \in InFlight(b) : \A m \in InFlight(b) : k <= m
           response == IF c.response # <<>> THEN c.response[1] ELSE Undefined
           lastError == CASE c.response # <<>> -> Undefined
                          [] c.to = {} -> NoReceiver
                          [] OTHER -> PortClosed
           out == handleResponse(response, calls[i].request, lastError,
                                 OptionOnError(options[b]), error[b])
       IN  /\ error' = [error EXCEPT ![b] = out.error]
           /\ calls' = [calls EXCEPT ![j] = out @@ calls[j]]
           /\ chan' = [chan EXCEPT ![i].done = TRUE]
    /\ UNCHANGED <<alive, options, handlers, lst, unit, busTarget>>

\* a callback that leaves bus.error alone when a later call of the bus has
\* reset it and is still in flight
CallbackYieldsToLaterCall(i) ==
    /\ i \in CallIds
    /\ ~chan[i].done
    /\ \/ chan[i].response # <<>>
       \/ chan[i].todo = {} /\ chan[i].pending = {}
    /\ LET c == chan[i]
           b == calls[i].caller
           response == IF c.response # <<>> THEN c.response[1] ELSE Undefined
           lastError == CASE c.response # <<>> -> Undefined
                          [] c.to = {} -> NoReceiver
                          [] OTHER -> PortClosed
           out == handleResponse(response, calls[i].request, lastError,
                                 OptionOnError(options[b]), error[b])
       IN  /\ error' = IF \E j \in InFlight(b) : j > i
                       THEN error ELSE [error EXCEPT ![b] = out.error]
           /\ calls' = [calls EXCEPT ![i] = out @@ calls[i]]
           /\ chan' = [chan EXCEPT ![i].done = TRUE]
    /\ UNCHANGED <<alive, options, handlers, lst, unit, busTarget>>

\* chrome runs the callback of sendMessage for calls[i], once: with the first
\* response, or with lastError set when there was nobody to receive or every
\* listener has returned without answering.  handleResponse: lines 154-194
Callback(i) ==
    /\ i \in CallIds
    /\ ~chan[i].done
    /\ \/ chan[i].response # <<>>
       \/ chan[i].todo = {} /\ chan[i].pending = {}
    /\ LET c == chan[i]
           b == calls[i].caller
           response == IF c.response # <<>> THEN c.response[1] ELSE Undefined
           lastError == CASE c.response # <<>> -> Undefined
                          [] c.to = {} -> NoReceiver
                          [] OTHER -> PortClosed
           out == handleResponse(response, calls[i].request, lastError,
                                 OptionOnError(options[b]), error[b])
       IN  /\ error' = [error EXCEPT ![b] = out.error]
           /\ calls' = [calls EXCEPT ![i] = out @@ calls[i]]
           /\ chan' = [chan EXCEPT ![i].done = TRUE]
    /\ UNCHANGED <<alive, options, handlers, lst, unit, busTarget>>

Next ==
    \/ \E b \in Names, path \in CallPaths, data \in Payloads : Call(b, path, data)
    \/ \E i \in 1..MaxCalls, r \in Names : Listen(i, r)
    \/ \E i \in 1..MaxCalls, r \in Names : Settle(i, r)
    \/ \E i \in 1..MaxCalls : Callback(i)

Spec == Init /\ [][Next]_vars

\* The tasks chrome has queued: a delivered message waits for its listener,
\* a handler's promise for its settlement, a channel for its callback.
Deliver ==
    \/ \E i \in 1..MaxCalls, r \in Names : Listen(i, r)
    \/ \E i \in 1..MaxCalls, r \in Names : Settle(i, r)
    \/ \E i \in 1..MaxCalls : Callback(i)

\* The event loops keep running: while a task is queued, one is run.
Fairness == WF_vars(Deliver)

FairSpec == Spec /\ Fairness

-----------------------------------------------------------------------------
(* Buses whose owner goes on working with the bus object after construction *)

\* the buses whose tree is not the one they were constructed with
Extended == {b \in Names : handlers[b] # OptionHandlers(options[b])}

\* the buses whose target property is not the one they were constructed with
Retargeted == {b \in Names : busTarget[b] # OptionTarget(options[b])}

\* bus.add(name, newHandlers) on the bus of b: lines 250-253
Add(b, name, newHandlers) ==
    /\ b \in alive
    /\ Cardinality(Extended) < MaxEdits
    /\ handlers' = [handlers EXCEPT ![b] = add(@, name, newHandlers)]
    /\ UNCHANGED <<alive, options, error, calls, chan, lst, unit, busTarget>>

\* bus.target = t, written by the owner of the bus object of b: target is a
\* plain property of the object built at lines 246-256
AssignTarget(b, t) ==
    /\ b \in alive
    /\ Cardinality(Retargeted) < MaxEdits
    /\ busTarget' = [busTarget EXCEPT ![b] = t]
    /\ UNCHANGED <<alive, options, handlers, error, calls, chan, lst, unit>>

\* what is added: a handler, and a subtree with one handler
AddedEntries == {Fn("greet"), Obj([x |-> Fn("delay")])}

\* the paths called on buses that are worked on
EditPaths == {<<"missing">>, <<"missing", "/", "x">>,
              <<"*", ":", "missing">>}

EditNext ==
    \/ \E b \in Names, path \in EditPaths, data \in Payloads :
          Call(b, path, data)
    \/ \E i \in 1..MaxCalls, r \in Names : Listen(i, r)
    \/ \E i \in 1..MaxCalls, r \in Names : Settle(i, r)
    \/ \E i \in 1..MaxCalls : Callback(i)
    \/ \E b \in Names, h \in AddedEntries : Add(b, "missing", h)
    \/ \E b \in Names, t \in {<<"*">>, <<"b">>, <<"c">>} :
          AssignTarget(b, t)

EditSpec == Init /\ [][EditNext]_vars

-----------------------------------------------------------------------------
(* The functions of the module called directly, on inputs of every shape *)

\* a tree with a subtree inside a subtree, and the same keys at several depths
DeepHandlers ==
    Obj([greet |-> Fn("pass"),
         nested |-> Obj([hello |-> Fn("hello"), fail |-> Fn("oops"),
                         nested |-> Obj([greet |-> Fn("greet")])])])

UnitTrees == {Obj(<<>>), BackgroundHandlers, PopupHandlers, DeepHandlers}

\* every sequence of at most n tokens
SeqsUpTo(tokens, n) == UNION {[1..k -> tokens] : k \in 0..n}

\* the paths handed to getHandler
UnitPaths ==
    SeqsUpTo({"greet", "fail", "nested", "/", "."}, MaxPathLen)

\* the paths handed to makeRequest
UnitCallPaths == SeqsUpTo({"b", "greet", ":", "/"}, MaxPathLen)

\* the requests handed to the listener of bus b
UnitRequests ==
    {makeRequest("a", target, path, data) :
        target \in {<<"b">>, <<"c">>, <<"*">>}, path \in CallPaths,
        data \in Payloads}

\* the responses and transport errors the callback of sendMessage is run with
UnitErrors ==
    {[code |-> code, message |-> message] :
        code \in {"no_handler", "handler_error"},
        message \in {Str("No handler"), Str("foo is not defined"), Str(""), Null}}
UnitResponses ==
    {Undefined} \cup {[target |-> "b"]}
      \cup {[target |-> "b", result |-> v] : v \in {Str("hi x"), Null}}
      \cup {[target |-> "b", error |-> e] : e \in UnitErrors}
UnitLastErrors == {Undefined, NoReceiver, PortClosed}

\* the entries handed to bus.add
UnitNames == {"greet", "nested", "fail", "extra"}
UnitEntries == {Fn("handle"), Obj([hello |-> Fn("pass")])}

\* the values of options.external
ExternalOptions ==
    {[t |-> "boolean", v |-> FALSE], [t |-> "boolean", v |-> TRUE],
     [t |-> "list", patterns |-> {<<"greet">>, <<"nested", "/", "*">>}],
     [t |-> "function", allow |-> {<<"greet">>}]}

\* the messages a web page or another extension sends
ExternalPaths == {<<"greet">>, <<"fail">>, <<"nested", "/", "hello">>, <<"missing">>}
ExternalMessages ==
    {Str("hello"), [t |-> "object", data |-> Str("x")],
     [t |-> "object", path |-> [t |-> "number"]]}
      \cup {[t |-> "object", path |-> PathString(p), data |-> Str("x")] :
               p \in ExternalPaths}
      \cup {[t |-> "object", path |-> PathString(p)] : p \in ExternalPaths}
      \cup {[t |-> "object", path |-> PathString(p), data |-> Str("x"),
             target |-> target] :
               p \in ExternalPaths, target \in {<<"b">>, <<"zzz">>}}
      \cup {[t |-> "object", path |-> PathString(p), data |-> Str("x"),
             source |-> "popup"] :
               p \in ExternalPaths}

\* the paths handed to callTab and callExtension
UnitTabPaths == SeqsUpTo({"b", "greet", ":"}, MaxPathLen)

\* a tree whose handlers call their sibling 'delay' through this
BoundHandlers ==
    Obj([bound |-> Fn("bound"), delay |-> Fn("delay"),
         nested |-> Obj([bound |-> Fn("bound"), delay |-> Fn("refuse")]),
         tabs |-> Obj([bound |-> Fn("bound")])])
BoundPaths == {<<"bound">>, <<"nested", "/", "bound">>, <<"tabs", "/", "bound">>}

\* the direct calls a behaviour may start from: one function and its arguments
UnitInit ==
    /\ alive = {}
    /\ options = MakeOptions
    /\ handlers = [b \in Names |-> OptionHandlers(options[b])]
    /\ error = [b \in Names |-> Null]
    /\ calls = <<>>
    /\ chan = <<>>
    /\ lst = <<>>
    /\ busTarget = [b \in Names |-> OptionTarget(options[b])]
    /\ \/ \E tree \in UnitTrees, path \in UnitPaths :
            unit = [fn |-> "getHandler", input |-> tree, path |-> path,
                    out |-> <<>>]
       \/ \E target \in {<<"b">>, <<"c">>, <<"*">>}, path \in UnitCallPaths,
             data \in Payloads :
            unit = [fn |-> "makeRequest", source |-> "a", target |-> target,
                    path |-> path, data |-> data, out |-> <<>>]
       \/ \E tree \in UnitTrees, request \in UnitRequests :
            unit = [fn |-> "handleRequest", source |-> "b", tree |-> tree,
                    request |-> request, out |-> <<>>]
       \/ \E target \in {<<"b">>, <<"*">>}, path \in BoundPaths,
             data \in Payloads :
            unit = [fn |-> "handleRequest", source |-> "b",
                    tree |-> BoundHandlers,
                    request |-> makeRequest("a", target, path, data),
                    out |-> <<>>]
       \/ \E response \in UnitResponses, request \in UnitRequests,
             lastError \in UnitLastErrors,
             onError \in {"warn", "reject", "function"} :
            unit = [fn |-> "handleResponse", response |-> response,
                    request |-> request, lastError |-> lastError,
                    onError |-> onError, out |-> <<>>]
       \/ \E tree \in UnitTrees, name \in UnitNames, h \in UnitEntries :
            unit = [fn |-> "add", tree |-> tree, name |-> name,
                    newHandlers |-> h, out |-> <<>>]
       \/ \E tree \in {BackgroundHandlers, PopupHandlers},
             external \in ExternalOptions, request \in ExternalMessages :
            unit = [fn |-> "handleExternalRequest", source |-> "b",
                    tree |-> tree, external |-> external, request |-> request,
                    out |-> <<>>]
       \/ \E fn \in {"callTab", "callExtension"},
             target \in {<<"b">>, <<"*">>}, path \in UnitTabPaths,
             data \in Payloads :
            unit = [fn |-> fn, source |-> "a", target |-> target, to |-> 1,
                    path |-> path, data |-> data, out |-> <<>>]

ApplyGetHandler ==
    /\ unit.fn = "getHandler" /\ unit.out = <<>>
    /\ unit' = [unit EXCEPT !.out = <<getHandler(unit.input, unit.path)>>]
    /\ UNCHANGED <<alive, options, handlers, error, calls, chan, lst,
                   busTarget>>

ApplyMakeRequest ==
    /\ unit.fn = "makeRequest" /\ unit.out = <<>>
    /\ unit' = [unit EXCEPT !.out = <<makeRequest(unit.source, unit.target,
                                                  unit.path, unit.data)>>]
    /\ UNCHANGED <<alive, options, handlers, error, calls, chan, lst,
                   busTarget>>

ApplyHandleRequest ==
    /\ unit.fn = "handleRequest" /\ unit.out = <<>>
    /\ unit' = [unit EXCEPT !.out = <<handleRequest(unit.source, unit.tree,
                                                    unit.request)>>]
    /\ UNCHANGED <<alive, options, handlers, error, calls, chan, lst,
                   busTarget>>

ApplyHandleResponse ==
    /\ unit.fn = "handleResponse" /\ unit.out = <<>>
    /\ unit' = [unit EXCEPT !.out = <<handleResponse(unit.response, unit.request,
                                                     unit.lastError,
                                                     unit.onError, Null)>>]
    /\ UNCHANGED <<alive, options, handlers, error, calls, chan, lst,
                   busTarget>>

ApplyAdd ==
    /\ unit.fn = "add" /\ unit.out = <<>>
    /\ unit' = [unit EXCEPT !.out = <<add(unit.tree, unit.name,
                                          unit.newHandlers)>>]
    /\ UNCHANGED <<alive, options, handlers, error, calls, chan, lst,
                   busTarget>>

\* a message arrives from outside the extension, at the process of a bus
ApplyHandleExternalRequest ==
    /\ unit.fn = "handleExternalRequest" /\ unit.out = <<>>
    /\ unit' = [unit EXCEPT !.out =
          <<IF ExternalListening(unit.external)
            THEN [listening |-> TRUE]
                   @@ handleExternalRequest(unit.source, unit.tree,
                                            unit.external, unit.request)
            ELSE [listening |-> FALSE, sends |-> <<>>, dispatched |-> <<>>,
                  invoked |-> <<>>, ended |-> "undefined", promise |-> <<>>]>>]
    /\ UNCHANGED <<alive, options, handlers, error, calls, chan, lst,
                   busTarget>>

ApplyCallTab ==
    /\ unit.fn = "callTab" /\ unit.out = <<>>
    /\ unit' = [unit EXCEPT !.out = <<callTab(unit.source, unit.to, unit.path,
                                              unit.data)>>]
    /\ UNCHANGED <<alive, options, handlers, error, calls, chan, lst,
                   busTarget>>

ApplyCallExtension ==
    /\ unit.fn = "callExtension" /\ unit.out = <<>>
    /\ unit' = [unit EXCEPT !.out = <<callExtension(unit.source, unit.to,
                                                    unit.path, unit.data)>>]
    /\ UNCHANGED <<alive, options, handlers, error, calls, chan, lst,
                   busTarget>>

UnitNext ==
    \/ ApplyHandleExternalRequest
    \/ ApplyCallTab
    \/ ApplyCallExtension
    \/ ApplyAdd
    \/ ApplyGetHandler
    \/ ApplyMakeRequest
    \/ ApplyHandleRequest
    \/ ApplyHandleResponse

UnitSpec == UnitInit /\ [][UnitNext]_vars

\* the direct call of fn has run
Ran(fn) == unit.fn = fn /\ unit.out # <<>>

-----------------------------------------------------------------------------
(* Reading the state *)

Settled(i) == calls[i].state # "pending"

\* the buses whose listener has run for calls[i] and resolved no callable
Missed(i) == {r \in chan[i].to : lst[i][r].ran /\ lst[i][r].invoked = <<>>}

-----------------------------------------------------------------------------
(* Properties *)

\* C1: a call whose request has target '*' is never classified 'no_handler'
\* (its handleResponse never assigns bus.error a 'no_handler' error): a
\* listening bus without a handler for a wildcard request sends nothing, and
\* the channel of a wildcard call never carries a 'no_handler' response.
WildcardNeverNoHandler ==
    \A i \in CallIds :
        calls[i].request.target = <<"*">> =>
            /\ \A r \in Missed(i) : lst[i][r].sends = <<>>
            /\ \A k \in 1..Len(chan[i].response) :
                 "error" \in DOMAIN chan[i].response[k]
                    => chan[i].response[k].error.code # "no_handler"
            /\ Settled(i) /\ calls[i].failed
                 => /\ calls[i].assigned[1].code # "no_handler"
                    /\ calls[i].error.code # "no_handler"

\* a wildcard call reached listening buses, none had a handler, and it was
\* classified no_response
WildcardMissWitness ==
    \E i \in CallIds :
        /\ calls[i].request.target = <<"*">>
        /\ Cardinality(Missed(i)) = 2
        /\ Settled(i) /\ calls[i].failed
        /\ calls[i].error.code = "no_response"

\* the policy the caller of calls[i] was made with
PolicyOf(i) == OptionOnError(options[calls[i].caller])

\* calls[i] is addressed to one named bus t, which is listening
NamedListening(i, t) ==
    /\ calls[i].request.target = <<t>>
    /\ t \in chan[i].to

\* C2: a call addressed to one specific named listening bus, whose path does
\* not resolve to a callable in that bus's handler tree, resolves to null and
\* sets bus.error.code to 'no_handler' (caller under the default 'warn').
NamedMissIsNoHandler ==
    \A i \in CallIds : \A t \in Names :
        /\ NamedListening(i, t)
        /\ lst[i][t].ran /\ lst[i][t].resolved # "found"
        /\ Settled(i) /\ PolicyOf(i) = "warn"
        => /\ calls[i].state = "resolved" /\ calls[i].value = Null
           /\ calls[i].failed /\ calls[i].error.code = "no_handler"

\* C3: a call to the wildcard target, when no listening bus has a handler at
\* the path, is classified 'no_response', and under the default policy it
\* resolves to null: with no bus listening and with buses that do not match.
WildcardMissIsNoResponse ==
    \A i \in CallIds :
        /\ calls[i].request.target = <<"*">>
        /\ \A r \in chan[i].to :
              getHandler(handlers[r], calls[i].request.path).status # "found"
        /\ Settled(i)
        => /\ calls[i].failed /\ calls[i].error.code = "no_response"
           /\ calls[i].error.message \in {NoReceiver, PortClosed}
           /\ chan[i].to = {} <=> calls[i].error.message = NoReceiver
           /\ PolicyOf(i) = "warn"
                => calls[i].state = "resolved" /\ calls[i].value = Null

\* bus a (default policy) called '*:missing' while b and c were listening,
\* both ran their listener, and the call resolved to null with no_response
WildcardMissResolvesNull ==
    \E i \in CallIds :
        /\ calls[i].request.target = <<"*">>
        /\ chan[i].to = {"b", "c"} /\ Missed(i) = {"b", "c"}
        /\ PolicyOf(i) = "warn"
        /\ Settled(i) /\ calls[i].value = Null
        /\ calls[i].error.code = "no_response"

\* the message named bus r, or r resolved a handler for it, and resolution
\* returned normally
Answerable(i, r) ==
    /\ lst[i][r].ran
    /\ \/ lst[i][r].resolved = "found"
       \/ lst[i][r].resolved = "none" /\ calls[i].request.target = <<r>>

\* C4: for every inbound message a bus accepts and answers, the dispatcher
\* invokes the response callback exactly once: never twice, and once as soon
\* as the outcome of the handler is known.
ExactlyOneResponse ==
    \A i \in CallIds : \A r \in Names :
        Answerable(i, r) =>
            /\ Len(lst[i][r].sends) <= 1
            /\ r \notin chan[i].pending => Len(lst[i][r].sends) = 1

\* C5: every outbound call eventually completes: the promise returned by
\* call is settled, whether or not a target exists, a handler matches, or
\* the handler throws or rejects.
EveryCallCompletes ==
    \A i \in 1..MaxCalls :
        (Len(calls) >= i) ~> (Len(calls) >= i /\ calls[i].state # "pending")

\* the response of bus r is the one the callback of calls[i] was given
AnsweredBy(i, r) ==
    /\ Settled(i)
    /\ chan[i].response # <<>>
    /\ chan[i].response[1].target = r

\* a call completed on the rejection of the promise its handler returned
CompletedOnRejection ==
    \E i \in CallIds : \E r \in Names :
        /\ AnsweredBy(i, r)
        /\ lst[i][r].promise # <<>>
        /\ lst[i][r].promise[1].settle = "reject"
        /\ calls[i].failed /\ calls[i].error.code = "handler_error"

\* no call of bus b was started while another call of b was in flight
NoOverlap(b) == \A j \in CallIds : calls[j].caller = b => ~calls[j].overlaps

\* what the handler that bus r invoked for calls[i] did
Outcome(i, r) ==
    LET inv == lst[i][r].invoked[1] IN RunHandler(inv.fn, inv.data, inv.self)

\* bus r invoked a handler for calls[i] and it returned a value synchronously
ReturnedValue(i, r) ==
    /\ lst[i][r].ran /\ lst[i][r].invoked # <<>>
    /\ Outcome(i, r).kind = "return"

\* C6: when the addressed bus has a handler at the path and the handler
\* returns a value synchronously, the handler receives exactly the payload
\* passed to call, the call resolves with exactly the value the handler
\* returned (undefined stays undefined), and the call records no error:
\* bus.error is null after it, no other call of the bus being in flight.
SyncValueRoundTrip ==
    \A i \in CallIds : \A r \in Names :
        /\ Settled(i) /\ ReturnedValue(i, r)
        /\ calls[i].request.target = <<r>> \/ AnsweredBy(i, r)
        => /\ AnsweredBy(i, r)
           /\ lst[i][r].invoked[1].data = calls[i].data
           /\ calls[i].state = "resolved"
           /\ calls[i].value = Outcome(i, r).value
           /\ ~calls[i].failed /\ calls[i].assigned = <<>>
           /\ NoOverlap(calls[i].caller) => calls[i].error = Null

\* 'nested/hello' was called on the named bus b, whose handler returns
\* nothing: the call resolved with undefined and bus.error stayed null
NestedUndefinedRoundTrip ==
    \E i \in CallIds :
        /\ calls[i].path = <<"nested", "/", "hello">>
        /\ AnsweredBy(i, "b") /\ ReturnedValue(i, "b")
        /\ lst[i]["b"].invoked[1].fn = "hello"
        /\ calls[i].state = "resolved" /\ calls[i].value = Undefined
        /\ error[calls[i].caller] = Null

\* the error the handler of bus r threw (mode "throw") or rejected its
\* promise with (mode "reject") for calls[i]
Failure(i, r, mode) ==
    IF lst[i][r].ran /\ lst[i][r].invoked # <<>>
    THEN LET o == Outcome(i, r)
         IN  CASE mode = "throw" /\ o.kind = "throw" -> <<o.error>>
               [] mode = "reject" /\ o.kind = "promise" /\ o.settle = "reject"
                    -> <<o.value>>
               [] OTHER -> <<>>
    ELSE <<>>

\* the message of a thrown value: an Error's message, or the value itself
MessageOf(e) == IF e.t = "error" THEN Str(e.message) ELSE e

\* C7: a handler that throws an error synchronously and a handler that
\* returns a promise rejecting with the same error lead to the same
\* caller-side outcome: code 'handler_error' and the error's message.
ThrowAndRejectAgree ==
    /\ \A i \in CallIds : \A r \in Names : \A mode \in {"throw", "reject"} :
          AnsweredBy(i, r) /\ Failure(i, r, mode) # <<>>
          => /\ calls[i].failed
             /\ calls[i].error.code = "handler_error"
             /\ calls[i].error.message = MessageOf(Failure(i, r, mode)[1])
    /\ \A i, j \in CallIds : \A r, q \in Names :
          /\ AnsweredBy(i, r) /\ AnsweredBy(j, q)
          /\ Failure(i, r, "throw") # <<>>
          /\ Failure(i, r, "throw") = Failure(j, q, "reject")
          => /\ calls[i].error.code = calls[j].error.code
             /\ calls[i].error.message = calls[j].error.message

\* one call was answered by a handler that threw a ReferenceError, another
\* by a handler whose promise rejected with the same ReferenceError
ThrowAndRejectWitness ==
    \E i, j \in CallIds : \E r, q \in Names :
        /\ AnsweredBy(i, r) /\ AnsweredBy(j, q)
        /\ Failure(i, r, "throw") # <<>>
        /\ Failure(i, r, "throw") = Failure(j, q, "reject")
        /\ calls[j].error.code = "handler_error"

\* C8: for every failure class, under onError 'reject' the promise of a
\* failing call is rejected and never resolved; under 'warn' (the default) it
\* is resolved with null and never rejected.
PolicyDecidesSettlement ==
    \A i \in CallIds :
        Settled(i) /\ calls[i].failed
        => /\ calls[i].error.code \in {"no_response", "no_handler", "handler_error"}
           /\ PolicyOf(i) = "reject" => calls[i].state = "rejected"
           /\ PolicyOf(i) = "warn"
                => calls[i].state = "resolved" /\ calls[i].value = Null

\* a call of the rejecting bus was rejected for no_response, and a call of
\* the warning bus resolved to null on a handler_error
RejectAndWarnWitness ==
    \E i, j \in CallIds :
        /\ PolicyOf(i) = "reject" /\ calls[i].state = "rejected"
        /\ calls[i].error.code = "no_response"
        /\ PolicyOf(j) = "warn" /\ calls[j].state = "resolved"
        /\ calls[j].failed /\ calls[j].error.code = "handler_error"
        /\ calls[j].value = Null

\* C9: under each policy, when a call fails, bus.error holds the structured
\* error (code, message, target) of that call when the policy branch runs:
\* the custom onError function finds it on the bus it is given, 'reject'
\* rejects with it, and it is there when the promise is settled.
ErrorSetBeforePolicy ==
    \A i \in CallIds :
        Settled(i) /\ calls[i].failed
        => /\ DOMAIN calls[i].assigned[1] = {"code", "message", "target"}
           /\ calls[i].seen = calls[i].assigned
           /\ calls[i].error = calls[i].assigned[1]
           /\ PolicyOf(i) = "reject" => calls[i].value = calls[i].assigned[1]
           /\ PolicyOf(i) = "function"
                => /\ Len(calls[i].onErrorArgs) = 1
                   /\ calls[i].onErrorArgs[1].error = calls[i].assigned[1]

\* a custom onError function ran for a failed call and found the call's
\* error in bus.error
OnErrorSawErrorWitness ==
    \E i \in CallIds :
        /\ PolicyOf(i) = "function" /\ Settled(i) /\ calls[i].failed
        /\ calls[i].onErrorArgs # <<>>
        /\ calls[i].onErrorArgs[1].error.code = "handler_error"

\* the most recent call of bus b
LastCallOf(b) ==
    LET mine == {i \in CallIds : calls[i].caller = b}
    IN  CHOOSE i \in mine : \A j \in mine : j <= i

\* bus.error of b is what its most recent call left: null while it is
\* pending or when it succeeded, its error when it failed
ReflectsLastCall(b) ==
    LET i == LastCallOf(b)
    IN  error[b] = IF Settled(i) /\ calls[i].failed THEN calls[i].assigned[1]
                                                   ELSE Null

\* a step in which bus b starts a call
Starts(b) == Len(calls') = Len(calls) + 1 /\ calls'[Len(calls')].caller = b

\* C10 as stated: after any sequence of calls of one bus, overlapping
\* or not, bus.error reflects only the outcome of the most recent call.
ErrorIsMostRecentCalls ==
    \A b \in Names :
        /\ \E i \in CallIds : calls[i].caller = b
        /\ InFlight(b) = {}
        => ReflectsLastCall(b)

\* C10 amended: every call resets bus.error to null when it starts, and
\* as long as the calls of a bus do not overlap in flight, bus.error reflects
\* only the outcome of its most recent call.
ErrorIsMostRecentCallsUnlessOverlap ==
    [][\A b \in Names :
          /\ Starts(b) => error'[b] = Null
          /\ (\E i \in CallIds : calls[i].caller = b) /\ NoOverlap(b)
               => ReflectsLastCall(b)
          /\ (\E i \in 1..Len(calls') : calls'[i].caller = b) /\ NoOverlap(b)'
               => ReflectsLastCall(b)']_vars

\* a bus made two calls one after the other: the first failed, the second
\* succeeded, and bus.error is null again
SecondCallClearedError ==
    \E b \in Names :
        /\ NoOverlap(b)
        /\ \E i, j \in CallIds :
              /\ i < j /\ calls[i].caller = b /\ calls[j].caller = b
              /\ Settled(i) /\ calls[i].failed
              /\ Settled(j) /\ ~calls[j].failed
        /\ error[b] = Null

-----------------------------------------------------------------------------
(* Properties of resolution *)

\* the ways a path is cut into segments: on '/' alone, and as line 18 does
Readings == {{"/"}, {"/", "."}}

RECURSIVE At(_, _)
\* what a tree stores at the nested location named by segs: a callable, a
\* subtree, or nothing
At(tree, segs) ==
    IF segs = <<>> THEN tree
    ELSE IF tree.type = "object"
         THEN At(Get(tree, Head(segs)), Tail(segs))
         ELSE NoValue

\* all segments but the last
Front(segs) == SubSeq(segs, 1, Len(segs) - 1)

\* C11: for every handler tree and every path whose intermediate segments
\* all map to subtrees and whose final segment maps to a callable, resolution
\* returns the callable stored at exactly that nested location (bound to the
\* subtree that holds it); when the final segment maps to a subtree,
\* resolution returns nothing.
ResolvesExactLocation ==
    Ran("getHandler") =>
        \A seps \in Readings :
            LET segs == Split(unit.path, seps)
                holder == At(unit.input, Front(segs))
                final == At(unit.input, segs)
            IN  /\ holder.type = "object" /\ final.type = "function"
                     => unit.out[1] = [status |-> "found", fn |-> final.fn,
                                       self |-> holder]
                /\ holder.type = "object" /\ final.type = "object"
                     => unit.out[1].status = "none"

\* 'nested/nested/greet' was resolved in the deep tree and gave the callable
\* two subtrees down, not the 'greet' of the root
ResolvedTwoLevelsDown ==
    /\ Ran("getHandler")
    /\ unit.input = DeepHandlers
    /\ unit.path = <<"nested", "/", "nested", "/", "greet">>
    /\ unit.out[1].status = "found" /\ unit.out[1].fn = "greet"

\* a segment before the last one names a callable
CallableMidPath(tree, segs) ==
    \E k \in 1..(Len(segs) - 1) : At(tree, SubSeq(segs, 1, k)).type = "function"

\* C12: when a path segment other than the last resolves to a callable,
\* resolution yields no handler: the remaining segments are never resolved
\* against any other tree, the callable's siblings included.
CallableMidPathIsNoHandler ==
    Ran("getHandler") =>
        \A seps \in Readings :
            CallableMidPath(unit.input, Split(unit.path, seps))
                => unit.out[1].status = "none"

\* C13: resolution never raises an exception: for every tree and every
\* path getHandler returns normally, and the listener that called it returns
\* normally, having answered 'no_handler' or stayed silent on a miss.
ResolutionNeverThrows ==
    /\ Ran("getHandler") => unit.out[1].status \in {"found", "none"}
    /\ Ran("handleRequest") /\ unit.out[1].accepted
         => /\ unit.out[1].resolved \in {"found", "none"}
            /\ unit.out[1].ended # "threw"

-----------------------------------------------------------------------------
(* Properties of the request envelope *)

\* the position of the first ':' of a path that has one
FirstColon(path) ==
    CHOOSE k \in 1..Len(path) : path[k] = ":" /\ \A j \in 1..(k - 1) : path[j] # ":"

\* C14: for every configured default target and every call path of the
\* form '<name>:<rest>', the request's target is <name>, not the configured
\* default, and its path is <rest>; a path without a prefix gets the
\* configured default target and the whole path.
PrefixOverridesTarget ==
    Ran("makeRequest") =>
        IF HasColon(unit.path)
        THEN LET k == FirstColon(unit.path)
                 name == SubSeq(unit.path, 1, k - 1)
                 rest == SubSeq(unit.path, k + 1, Len(unit.path))
             IN  name # <<>> => /\ unit.out[1].target = name
                                /\ unit.out[1].path = rest
        ELSE /\ unit.out[1].target = unit.target
             /\ unit.out[1].path = unit.path

-----------------------------------------------------------------------------
(* Properties of the listener *)

\* C15: an inbound message whose target is neither this bus's own name
\* nor '*' is ignored entirely: no handler is resolved or invoked, the
\* response callback is never called, and the listener does not return the
\* 'response pending' signal.
IgnoresOtherTargets ==
    \A i \in CallIds : \A r \in Names :
        lst[i][r].ran /\ calls[i].request.target \notin {<<r>>, <<"*">>}
        => /\ ~lst[i][r].accepted
           /\ lst[i][r].resolved = "n/a" /\ lst[i][r].invoked = <<>>
           /\ lst[i][r].sends = <<>>
           /\ lst[i][r].ended = "undefined" /\ r \notin chan[i].pending

\* a call addressed to b also reached the listener of c, which ignored it,
\* and the call was settled with the response of b
IgnoredByBystander ==
    \E i \in CallIds :
        /\ calls[i].request.target = <<"b">>
        /\ lst[i]["c"].ran /\ ~lst[i]["c"].accepted
        /\ lst[i]["c"].sends = <<>>
        /\ AnsweredBy(i, "b")

\* C16: when an accepted message has target '*' and the path resolves to
\* no handler, the dispatcher never invokes the response callback, neither
\* before the listener returns nor later, and does not signal a pending
\* response.
WildcardMissStaysSilent ==
    \A i \in CallIds : \A r \in Names :
        /\ lst[i][r].ran /\ lst[i][r].accepted
        /\ calls[i].request.target = <<"*">>
        /\ lst[i][r].resolved # "found"
        => /\ lst[i][r].sends = <<>>
           /\ lst[i][r].ended # "true"
           /\ lst[i][r].promise = <<>> /\ r \notin chan[i].pending

\* a bus accepted a wildcard message, found no handler, and has said nothing
\* by the time the caller's callback has run
SilentToTheEnd ==
    \E i \in CallIds : \E r \in Names :
        /\ calls[i].request.target = <<"*">>
        /\ lst[i][r].ran /\ lst[i][r].accepted /\ lst[i][r].resolved = "none"
        /\ lst[i][r].sends = <<>>
        /\ chan[i].done

\* the handler bus r invoked for calls[i] returned a promise
ReturnedPromise(i, r) ==
    /\ lst[i][r].invoked # <<>>
    /\ Outcome(i, r).kind = "promise"

\* C17: the listener returns the 'response pending' signal (true) if and
\* only if the resolved handler returned a promise; then no response is sent
\* before the promise settles, and one deferred response is sent when it
\* settles: the result on fulfilment, a handler_error on rejection.
PendingIffPromise ==
    \A i \in CallIds : \A r \in Names :
        lst[i][r].ran =>
            /\ lst[i][r].ended = "true" <=> ReturnedPromise(i, r)
            /\ r \in chan[i].pending <=> ReturnedPromise(i, r) /\ lst[i][r].sends = <<>>
            /\ ReturnedPromise(i, r) /\ r \notin chan[i].pending
                 => /\ Len(lst[i][r].sends) = 1
                    /\ IF Outcome(i, r).settle = "fulfil"
                       THEN lst[i][r].sends[1] =
                               [target |-> r, result |-> Outcome(i, r).value]
                       ELSE /\ "error" \in DOMAIN lst[i][r].sends[1]
                            /\ lst[i][r].sends[1].error.code = "handler_error"
                            /\ lst[i][r].sends[1].error.message =
                                  MessageOf(Outcome(i, r).value)

\* a handler's promise was fulfilled after its listener had returned true,
\* and the caller got the deferred result
DeferredResultArrived ==
    \E i \in CallIds : \E r \in Names :
        /\ lst[i][r].ran /\ lst[i][r].ended = "true" /\ r \notin chan[i].pending
        /\ lst[i][r].sends = <<[target |-> r, result |-> Str("now")]>>
        /\ AnsweredBy(i, r) /\ calls[i].value = Str("now")

\* the listener of bus r ran for calls[i], returned without the 'response
\* pending' signal, and had a synchronous outcome to report: a handler's
\* value or throw, or no handler on a bus addressed by name
SyncOutcome(i, r) ==
    /\ lst[i][r].ran /\ lst[i][r].ended = "undefined"
    /\ \/ lst[i][r].invoked # <<>>
       \/ lst[i][r].resolved = "none" /\ calls[i].request.target = <<r>>

\* C18: the dispatcher never invokes the response callback after the
\* listener has returned without the 'response pending' signal: every
\* response for a synchronous outcome (value, throw, no_handler) is sent
\* before the listener returns.
NoResponseAfterReturn ==
    /\ [](\A i \in CallIds : \A r \in Names :
            SyncOutcome(i, r) => lst[i][r].sends # <<>>)
    /\ [][\A i \in CallIds : \A r \in Names :
            lst[i][r].ran /\ lst[i][r].ended # "true"
               => lst'[i][r].sends = lst[i][r].sends]_vars

\* a listener answered 'no_handler' and returned, and the caller's callback
\* has run since
AnsweredBeforeReturning ==
    \E i \in CallIds : \E r \in Names :
        /\ SyncOutcome(i, r) /\ lst[i][r].invoked = <<>>
        /\ lst[i][r].sends = <<makeResponse(r, NoHandlerPayload)>>
        /\ chan[i].done

\* C19: a handler's synchronous throw or asynchronous rejection never
\* propagates out of the listener: it is caught and converted into a
\* response whose error code is 'handler_error'.
HandlerFailureIsCaught ==
    \A i \in CallIds : \A r \in Names :
        /\ Failure(i, r, "throw") # <<>>
             => /\ lst[i][r].ended = "undefined"
                /\ lst[i][r].sends # <<>>
                /\ "error" \in DOMAIN lst[i][r].sends[1]
                /\ lst[i][r].sends[1].error.code = "handler_error"
        /\ Failure(i, r, "reject") # <<>>
             => /\ lst[i][r].ended = "true"
                /\ r \notin chan[i].pending
                     => /\ Len(lst[i][r].sends) = 1
                        /\ "error" \in DOMAIN lst[i][r].sends[1]
                        /\ lst[i][r].sends[1].error.code = "handler_error"

\* a handler threw a string, its listener returned normally, and the first
\* response it sent is a handler_error carrying the string
ThrownStringWasCaught ==
    \E i \in CallIds : \E r \in Names :
        /\ Failure(i, r, "throw") = <<Str("foo is not defined")>>
        /\ lst[i][r].ended = "undefined"
        /\ lst[i][r].sends[1].error =
              [code |-> "handler_error", message |-> Str("foo is not defined")]

-----------------------------------------------------------------------------
(* Properties of the callback *)

\* the response the callback was run with carries a structured error
Structured(response) == response # Undefined /\ "error" \in DOMAIN response

-----------------------------------------------------------------------------
(* Properties of the error policies *)

\* the response the callback of calls[i] was run with
RawResponse(i) == IF chan[i].response # <<>> THEN chan[i].response[1] ELSE Undefined

\* C21: under a custom onError function, a failing call invokes the
\* function exactly once with the original request, the raw response and the
\* bus, and the call's promise resolves with the function's return value;
\* a call that does not fail never invokes it.
CustomHandlerDecides ==
    \A i \in CallIds :
        Settled(i) /\ PolicyOf(i) = "function"
        => IF calls[i].failed
           THEN /\ Len(calls[i].onErrorArgs) = 1
                /\ calls[i].onErrorArgs[1].request = calls[i].request
                /\ calls[i].onErrorArgs[1].response = RawResponse(i)
                /\ calls[i].onErrorArgs[1].error = calls[i].assigned[1]
                /\ calls[i].state = "resolved"
                /\ calls[i].value =
                      OnErrorFunction(calls[i].request, RawResponse(i),
                                      calls[i].assigned[1])
                /\ calls[i].value # Null
           ELSE calls[i].onErrorArgs = <<>>

\* a call of the bus with a custom function found no listener at all, the
\* function was given the request and no response, and the call resolved
\* with what the function returned
CustomHandlerOnSilence ==
    \E i \in CallIds :
        /\ PolicyOf(i) = "function" /\ Settled(i)
        /\ calls[i].error.code = "no_response"
        /\ calls[i].onErrorArgs[1].request = calls[i].request
        /\ calls[i].onErrorArgs[1].response = Undefined
        /\ calls[i].state = "resolved" /\ calls[i].value = Str("fallback")

\* C22: under onError 'reject', the rejection value of a failing call is
\* the structured error object (code, message, target) stored in bus.error
\* for that call, and no console warning is written.
RejectsWithStoredError ==
    \A i \in CallIds :
        Settled(i) /\ calls[i].failed /\ PolicyOf(i) = "reject"
        => /\ calls[i].state = "rejected"
           /\ calls[i].value = calls[i].error
           /\ DOMAIN calls[i].value = {"code", "message", "target"}
           /\ calls[i].value.code \in {"no_response", "no_handler", "handler_error"}
           /\ calls[i].value.target =
                 (IF RawResponse(i) = Undefined THEN calls[i].request.target
                                                ELSE <<RawResponse(i).target>>)
                   \o <<":">> \o calls[i].request.path
           /\ ~calls[i].warned

\* the rejecting bus b called 'fail' on c, whose handler throws a string:
\* the promise was rejected with { handler_error, the string, 'c:fail' }
RejectedWithHandlerError ==
    \E i \in CallIds :
        /\ PolicyOf(i) = "reject" /\ calls[i].state = "rejected"
        /\ calls[i].value = [code |-> "handler_error",
                             message |-> Str("foo is not defined"),
                             target |-> <<"c", ":", "fail">>]
        /\ ~calls[i].warned

\* C23: under onError 'warn' (the default), a failing call writes a
\* diagnostic warning if and only if its error code is not 'no_response';
\* in both cases the call resolves with null.
WarnsUnlessNoResponse ==
    \A i \in CallIds :
        Settled(i) /\ PolicyOf(i) = "warn"
        => /\ calls[i].warned <=> calls[i].failed /\ calls[i].error.code # "no_response"
           /\ calls[i].failed
                => calls[i].state = "resolved" /\ calls[i].value = Null

\* the warning bus made two failing calls: one warned (no_handler), the
\* other stayed quiet (no_response), and both resolved with null
WarnedOnceQuietOnce ==
    \E i, j \in CallIds :
        /\ PolicyOf(i) = "warn" /\ PolicyOf(j) = "warn"
        /\ Settled(i) /\ calls[i].failed /\ calls[i].error.code = "no_handler"
        /\ calls[i].warned /\ calls[i].value = Null
        /\ Settled(j) /\ calls[j].failed /\ calls[j].error.code = "no_response"
        /\ ~calls[j].warned /\ calls[j].value = Null

-----------------------------------------------------------------------------
(* Properties of add *)

\* C24: add(name, h) changes only the top-level entry 'name' of the
\* handler tree, creating it or overwriting the entry of that name: every
\* other top-level entry and its subtree is unchanged, and every path into
\* them still resolves to the same handler afterwards.
AddChangesOneEntry ==
    Ran("add") =>
        LET old == unit.tree
            new == unit.out[1]
        IN  /\ DOMAIN new.entries = DOMAIN old.entries \cup {unit.name}
            /\ new.entries[unit.name] = unit.newHandlers
            /\ \A k \in DOMAIN old.entries \ {unit.name} :
                  new.entries[k] = old.entries[k]
            /\ \A path \in UnitPaths :
                  LET segs == Split(path, {"/", "."})
                  IN  At(old, segs).type = "function" /\ segs[1] # <<unit.name>>
                      => /\ getHandler(new, path).status = "found"
                         /\ getHandler(new, path).fn = At(old, segs).fn
                         /\ Len(segs) > 1
                              => getHandler(new, path) = getHandler(old, path)

\* 'greet' was overwritten in the background tree, and 'fail', 'delay' and
\* 'nested/hello' are where they were
OverwroteGreetOnly ==
    /\ Ran("add")
    /\ unit.tree = BackgroundHandlers /\ unit.name = "greet"
    /\ unit.newHandlers = Fn("handle")
    /\ unit.out[1].entries["greet"] = Fn("handle")
    /\ unit.out[1].entries["fail"] = Fn("fail")
    /\ getHandler(unit.out[1], <<"nested", "/", "hello">>).fn = "hello"

-----------------------------------------------------------------------------
(* Properties of external messages, tab calls and extension calls *)

\* a path matches a pattern: it equals it, or the pattern ends in '*' and
\* the path starts with what precedes the '*'
Matches(path, pattern) ==
    \/ path = pattern
    \/ /\ pattern # <<>> /\ pattern[Len(pattern)] = "*"
       /\ Len(path) >= Len(pattern) - 1
       /\ SubSeq(path, 1, Len(pattern) - 1) = SubSeq(pattern, 1, Len(pattern) - 1)

\* the external message of the direct call carries a string as its path
HasStringPath(request) ==
    /\ request.t = "object" /\ "path" \in DOMAIN request
    /\ request.path.t = "string"

\* the allow policy turns the path down
PolicyRejects(external, path) ==
    CASE external.t = "boolean" -> ~external.v
      [] external.t = "list" -> \A pattern \in external.patterns : ~Matches(path, pattern)
      [] external.t = "function" -> path \notin external.allow

\* C25: when the external allow policy rejects an externally originated
\* message, the dispatcher sends no response at all: the response callback
\* is never invoked for that message, and no handler is invoked.
ExternalRejectionIsSilent ==
    /\ Ran("handleExternalRequest")
    /\ HasStringPath(unit.request)
    /\ PolicyRejects(unit.external, unit.request.path.tokens)
    => /\ unit.out[1].sends = <<>>
       /\ unit.out[1].invoked = <<>>

\* C26: when external is a list of path patterns, an externally
\* originated message is dispatched to a handler only if its path equals a
\* listed pattern or matches a listed pattern with a trailing wildcard; for
\* every other path no handler is invoked.
ListAdmitsOnlyListed ==
    /\ Ran("handleExternalRequest")
    /\ unit.external.t = "list"
    /\ unit.out[1].invoked # <<>>
    => \E pattern \in unit.external.patterns :
          Matches(unit.request.path.tokens, pattern)

\* the external message without the fields 'source' and 'target'
Stripped(request) ==
    [k \in DOMAIN request \ {"source", "target"} |-> request[k]]

\* C27: every externally originated message that passes the policy is
\* dispatched with source 'external' and target '*', whatever 'source' or
\* 'target' fields the message itself carries; two external messages that
\* differ only in those fields are dispatched identically.
ExternalIsTaggedWildcard ==
    Ran("handleExternalRequest") /\ unit.out[1].dispatched # <<>>
    => /\ unit.out[1].dispatched[1].source = "external"
       /\ unit.out[1].dispatched[1].target = <<"*">>
       /\ handleExternalRequest(unit.source, unit.tree, unit.external,
                                Stripped(unit.request))
            = [k \in DOMAIN unit.out[1] \ {"listening"} |-> unit.out[1][k]]

\* C28: the request built by a tab call or by an extension call always
\* has target '*', for every path argument and every configured default
\* target of the calling bus.
TabCallTargetsWildcard ==
    Ran("callTab") \/ Ran("callExtension")
    => unit.out[1].request.target = <<"*">>

-----------------------------------------------------------------------------
(* Properties of the receiver *)

\* the last segment of a path that is not empty
LastSegment(segs) ==
    LET k == CHOOSE k \in 1..Len(segs) :
                segs[k] # <<>> /\ \A j \in (k + 1)..Len(segs) : segs[j] = <<>>
    IN  segs[k]

\* C29: a resolved handler is invoked with its immediate containing tree
\* as its receiver: the root tree for a top-level handler, the enclosing
\* subtree for a nested one; a handler that calls a sibling through its
\* receiver reaches the entry of that same tree, and only of that tree.
ReceiverIsContainingTree ==
    /\ Ran("getHandler") /\ unit.out[1].status = "found"
         => LET segs == Split(unit.path, {"/", "."})
                self == unit.out[1].self
            IN  /\ self.type = "object"
                /\ Get(self, LastSegment(segs)) = Fn(unit.out[1].fn)
                /\ At(unit.input, segs).type = "function"
                     => self = At(unit.input, Front(segs))
                /\ Len(segs) = 1 => self = unit.input
    /\ Ran("handleRequest") /\ unit.out[1].invoked # <<>>
         => LET segs == Split(unit.request.path, {"/", "."})
                inv == unit.out[1].invoked[1]
                holder == At(unit.tree, Front(segs))
                sibling == Get(holder, <<"delay">>)
            IN  /\ At(unit.tree, segs).type = "function" => inv.self = holder
                /\ inv.fn = "bound" =>
                     IF sibling.type = "function"
                     THEN /\ unit.out[1].ended = "true"
                          /\ unit.out[1].promise[1] =
                                ThenReceived(RunHandler(sibling.fn, inv.data, holder))
                     ELSE /\ unit.out[1].ended = "undefined"
                          /\ unit.out[1].sends[1].error.code = "handler_error"

\* 'nested/bound' was dispatched: the handler reached the 'delay' of its own
\* subtree, whose promise rejects, not the 'delay' of the root
BoundReachedItsOwnSibling ==
    /\ Ran("handleRequest")
    /\ unit.tree = BoundHandlers
    /\ unit.request.path = <<"nested", "/", "bound">>
    /\ unit.out[1].invoked[1].self = BoundHandlers.entries["nested"]
    /\ unit.out[1].promise[1].settle = "reject"

-----------------------------------------------------------------------------
(* Properties of one call *)

\* C30: for any single call at most one response is observed: the call's
\* promise is settled at most once, by the one callback invocation of its
\* send, and with the first response that was sent for it.
SettledOnceByFirstResponse ==
    /\ [](\A i \in CallIds :
            /\ Settled(i) <=> chan[i].done
            /\ Settled(i) => calls[i].state \in {"resolved", "rejected"}
            /\ Len(chan[i].response) <= 1
            /\ \A r \in Names :
                  AnsweredBy(i, r) => RawResponse(i) = Wire(lst[i][r].sends[1]))
    /\ [][\A i \in CallIds :
            /\ Settled(i) => calls'[i] = calls[i]
            /\ chan[i].response # <<>> => chan'[i].response = chan[i].response]_vars

\* a listener sent two responses for one call; the call was settled once,
\* with the first of them
SecondResponseNotObserved ==
    \E i \in CallIds : \E r \in Names :
        /\ lst[i][r].ran /\ Len(lst[i][r].sends) = 2
        /\ AnsweredBy(i, r) /\ chan[i].done
        /\ RawResponse(i) = Wire(lst[i][r].sends[1])
        /\ RawResponse(i) # Wire(lst[i][r].sends[2])
        /\ ~calls[i].failed

-----------------------------------------------------------------------------
(* Properties of several buses and several calls *)

\* the codes of type BusErrorCode
BusErrorCodes == {"no_response", "no_handler", "handler_error"}

\* C31: in every reachable state bus.error is either null or a structured
\* error (code, message, target) whose code is one of 'no_response',
\* 'no_handler', 'handler_error', every responder being a bus of this library.
ErrorIsNullOrCoded ==
    \A b \in Names :
        \/ error[b] = Null
        \/ /\ DOMAIN error[b] = {"code", "message", "target"}
           /\ error[b].code \in BusErrorCodes

\* two buses hold errors at the same time, one told that the named bus had
\* no handler, the other that the handler failed
TwoCodesAtOnce ==
    \E b, c \in Names :
        /\ error[b] # Null /\ error[b].code = "no_handler"
        /\ error[c] # Null /\ error[c].code = "handler_error"

\* the buses a call was delivered to that have a handler at its path
HasHandler(i) ==
    {r \in chan[i].to :
        getHandler(handlers[r], calls[i].request.path).status = "found"}

\* calls[i] is a wildcard call delivered to several listening buses
Broadcast(i) ==
    calls[i].request.target = <<"*">> /\ Cardinality(chan[i].to) >= 2

\* C32: when a wildcard call reaches several listening buses and at least
\* one of them has a handler at the path, the response the caller is given
\* is the first one sent, and it was sent by a bus that has a handler at the
\* path; a bus without one sends nothing, and the call does not end in
\* 'no_response'.
FirstHandlerResponseWins ==
    /\ [](\A i \in CallIds :
            Broadcast(i) /\ HasHandler(i) # {} =>
                /\ \A r \in chan[i].to \ HasHandler(i) :
                      lst[i][r].ran => lst[i][r].sends = <<>>
                /\ chan[i].response # <<>> =>
                      \E r \in HasHandler(i) :
                          /\ lst[i][r].ran /\ lst[i][r].sends # <<>>
                          /\ chan[i].response[1] = Wire(lst[i][r].sends[1])
                /\ Settled(i) =>
                      /\ chan[i].response # <<>>
                      /\ calls[i].failed => calls[i].error.code # "no_response"
                      /\ \A r \in Names :
                            AnsweredBy(i, r) /\ ReturnedValue(i, r)
                               => calls[i].value = Outcome(i, r).value)
    /\ [][\A i \in CallIds :
            Broadcast(i) /\ HasHandler(i) # {}
            /\ chan[i].response = <<>> /\ chan'[i].response # <<>>
            => \E r \in HasHandler(i) :
                  /\ lst'[i][r] # lst[i][r]
                  /\ chan'[i].response[1] = Wire(lst'[i][r].sends[1])]_vars

\* '*:nested/hello' reached two buses: the one without the handler threw and
\* sent nothing, the other answered, and the call resolved with its result
OnlyHolderAnswered ==
    \E i \in CallIds :
        /\ Broadcast(i) /\ HasHandler(i) = {"b"}
        /\ lst[i]["c"].ran /\ lst[i]["c"].sends = <<>>
        /\ AnsweredBy(i, "b")
        /\ calls[i].state = "resolved" /\ ~calls[i].failed

\* calls[i] and another call of the same bus were in flight together
Concurrent(i) ==
    \E j \in CallIds :
        /\ j # i /\ calls[j].caller = calls[i].caller
        /\ IF j > i THEN calls[j].overlaps ELSE calls[i].overlaps

\* C33: concurrent calls of one bus are correlated to their own responses
\* only: in whatever order the responses arrive, a call is settled with the
\* response to its own request (the value its own handler returned for its
\* own payload, or the error of its own target and path) and a step that
\* settles one call leaves every other call as it was.
SettledByOwnResponse ==
    /\ [](\A i \in CallIds :
            Settled(i) /\ Concurrent(i) =>
                /\ calls[i].failed =>
                      /\ SubSeq(calls[i].error.target, 3,
                                Len(calls[i].error.target))
                            = calls[i].request.path
                      /\ calls[i].error.code =
                            IF chan[i].response = <<>> THEN "no_response"
                            ELSE chan[i].response[1].error.code
                /\ ~calls[i].failed =>
                      \E r \in chan[i].to :
                          /\ AnsweredBy(i, r)
                          /\ lst[i][r].invoked # <<>>
                          /\ lst[i][r].invoked[1].fn
                                = getHandler(handlers[r],
                                             calls[i].request.path).fn
                          /\ lst[i][r].invoked[1].data = calls[i].data
                          /\ calls[i].value = Outcome(i, r).value)
    /\ [][\A i \in CallIds :
            ~Settled(i) /\ Settled(i)' =>
                /\ chan'[i].done /\ ~chan[i].done
                /\ \A j \in CallIds \ {i} : calls'[j] = calls[j]]_vars

\* a bus called 'delay' and then 'greet' while the first call was in flight:
\* the second call was settled first, with the greeting
LaterCallSettledFirst ==
    /\ Len(calls) = 2
    /\ calls[1].caller = calls[2].caller /\ calls[2].overlaps
    /\ calls[1].path = <<"delay">> /\ ~Settled(1)
    /\ calls[2].path = <<"greet">> /\ Settled(2)
    /\ calls[2].value = Str("hi x")

\* C34: at the moment the promise of a failing call is settled, bus.error
\* holds the error of that very call (its code, and its target and path),
\* whatever other calls of the bus are in flight or were started meanwhile.
ErrorIsOwnAtSettlement ==
    [][\A i \in CallIds :
          ~Settled(i) /\ Settled(i)' /\ calls'[i].failed =>
              LET b == calls[i].caller
                  own == IF chan[i].response = <<>> THEN Undefined
                                                   ELSE chan[i].response[1]
              IN  /\ error'[b] # Null
                  /\ error'[b].code =
                        IF own = Undefined THEN "no_response" ELSE own.error.code
                  /\ error'[b].target =
                        (IF own = Undefined THEN calls[i].request.target
                                            ELSE <<own.target>>)
                           \o <<":">> \o calls[i].request.path
                  /\ calls'[i].seen = <<error'[b]>>]_vars

\* a bus started a second call while its first was in flight; the first then
\* failed, and bus.error holds the error of the first while the second waits
FailedWhileLaterCallWaits ==
    /\ Len(calls) = 2
    /\ calls[1].caller = calls[2].caller /\ calls[2].overlaps
    /\ Settled(1) /\ calls[1].failed /\ ~Settled(2)
    /\ error[calls[1].caller] = calls[1].assigned[1]
    /\ calls[1].request.path # calls[2].request.path

\* C35: for a wildcard call delivered to several listening buses, every bus
\* that has a handler at the path invokes that handler exactly once when the
\* message is dispatched to it, whichever response the caller has been given
\* by then; a bus whose target check fails or whose path does not resolve
\* invokes no handler.
EachHolderInvokesOnce ==
    /\ [](\A i \in CallIds : \A r \in chan[i].to :
            /\ lst[i][r].ran <=> r \notin chan[i].todo
            /\ lst[i][r].ran =>
                  LET h == getHandler(handlers[r], calls[i].request.path)
                      named == calls[i].request.target \in {<<r>>, <<"*">>}
                  IN  IF named /\ h.status = "found"
                      THEN /\ Len(lst[i][r].invoked) = 1
                           /\ lst[i][r].invoked[1].fn = h.fn
                      ELSE lst[i][r].invoked = <<>>)
    /\ [][\A i \in CallIds : \A r \in Names :
            lst[i][r].ran => lst'[i][r].invoked = lst[i][r].invoked]_vars

\* '*:greet' reached two buses that both have the handler: the caller was
\* given the answer of one, and the other invoked its handler all the same
BothInvokedOneObserved ==
    \E i \in CallIds :
        /\ Broadcast(i) /\ HasHandler(i) = {"b", "c"}
        /\ chan[i].done /\ AnsweredBy(i, "c")
        /\ lst[i]["b"].ran /\ Len(lst[i]["b"].invoked) = 1
        /\ lst[i]["c"].ran /\ Len(lst[i]["c"].invoked) = 1

-----------------------------------------------------------------------------
(* Properties of a bus that is worked on after construction *)

\* the step runs the listener of bus r for calls[i]
Dispatches(i, r) == ~lst[i][r].ran /\ lst'[i][r].ran

\* C36: handlers registered with add(name, h) after construction take
\* effect for every message dispatched after the add returns: a request for
\* 'name' on the named bus dispatched before the add is answered
\* 'no_handler' and invokes nothing, a request dispatched after it invokes
\* what the added entry holds at the path, and an add leaves the messages
\* already dispatched, their responses and the calls as they were.
AddTakesEffectOnLaterMessages ==
    [][/\ \A i \in CallIds : \A r \in Names :
            Dispatches(i, r) /\ calls[i].request.target \in {<<r>>, <<"*">>} =>
                LET path == calls[i].request.path
                    segs == Split(path, {"/"})
                    entry == At(handlers[r], segs)
                IN  /\ r \in Extended /\ entry.type = "function" =>
                          lst'[i][r].invoked =
                              <<[fn |-> entry.fn, data |-> calls[i].data,
                                 self |-> At(handlers[r], Front(segs))]>>
                    /\ r \notin Extended /\ path = <<"missing">> =>
                          /\ lst'[i][r].invoked = <<>>
                          /\ lst'[i][r].sends =
                                IF calls[i].request.target = <<r>>
                                THEN <<makeResponse(r, NoHandlerPayload)>>
                                ELSE <<>>
       /\ handlers' # handlers =>
            /\ lst' = lst /\ chan' = chan /\ calls' = calls /\ error' = error
            /\ \E b \in Names :
                  /\ Get(handlers'[b], <<"missing">>) \in AddedEntries
                  /\ \A r \in Names \ {b} : handlers'[r] = handlers[r]]_vars

\* one bus was sent 'missing' twice, by name: the message dispatched before
\* the add was answered 'no_handler', the one dispatched after it invoked
\* the added handler
MissedBeforeAddInvokedAfter ==
    \E r \in Names :
        /\ Len(calls) = 2
        /\ \A i \in {1, 2} : /\ calls[i].request.target = <<r>>
                              /\ calls[i].request.path = <<"missing">>
                              /\ lst[i][r].ran
        /\ lst[1][r].invoked = <<>>
        /\ lst[1][r].sends = <<makeResponse(r, NoHandlerPayload)>>
        /\ lst[2][r].invoked # <<>> /\ lst[2][r].invoked[1].fn = "greet"

\* C37: the default target placed in the envelope of an un-prefixed call is
\* the one given at construction (or '*' when none was given): assigning
\* bus.target, add, and the calls made so far change neither it nor the
\* options it came from.
DefaultTargetIsConstructionTarget ==
    /\ options = MakeOptions
    /\ \A i \in CallIds :
          ~HasColon(calls[i].path) =>
              calls[i].request.target = OptionTarget(options[calls[i].caller])

\* a bus whose target property had been assigned another name made an
\* un-prefixed call, and the envelope names the target of construction
CalledAfterTargetAssigned ==
    \E i \in CallIds :
        /\ ~HasColon(calls[i].path)
        /\ calls[i].busTarget # OptionTarget(options[calls[i].caller])
        /\ calls[i].request.target = OptionTarget(options[calls[i].caller])
        /\ calls[i].request.target # calls[i].busTarget

\* C38: dispatching an inbound message leaves the state of the receiving
\* bus unchanged: whether the request is accepted or ignored, answered with a
\* result or with an error, the step changes no bus's error slot, target
\* property or options, and no handler tree (no handler of the trees writes
\* to its tree); the same holds when a handler's promise settles.
DispatchLeavesBusUnchanged ==
    [][(\E i \in CallIds : \E r \in Names : lst'[i][r] # lst[i][r]) =>
          /\ error' = error
          /\ busTarget' = busTarget
          /\ options' = options
          /\ handlers' = handlers
          /\ alive' = alive]_vars

\* a bus holds the error of its own failed call and has answered another
\* bus's request with an error of its own making
KeptOwnErrorWhileAnswering ==
    \E r \in Names : \E i, j \in CallIds :
        /\ calls[i].caller = r /\ Settled(i) /\ calls[i].failed
        /\ error[r] = calls[i].assigned[1]
        /\ calls[j].caller # r /\ lst[j][r].ran
        /\ lst[j][r].sends # <<>> /\ "error" \in DOMAIN lst[j][r].sends[1]
        /\ error[r].target # <<r, ":">> \o calls[j].request.path

-----------------------------------------------------------------------------
(* Properties of the path syntax *)

\* C39: path segments are delimited by '/' only and taken in order: a '.'
\* inside a segment is part of the key, and empty segments are not dropped,
\* so a path resolves to a handler only if the handler is stored at the
\* location named by its '/'-separated segments.
SegmentsAreSlashSeparated ==
    Ran("getHandler") /\ unit.out[1].status = "found" =>
        LET segs == Split(unit.path, {"/"})
        IN  /\ At(unit.input, segs) = Fn(unit.out[1].fn)
            /\ At(unit.input, Front(segs)) = unit.out[1].self

====
